---- MODULE Spec2Model ----
(***************************************************************************)
(* Model of the RAG chatbot backend: the bounded, lock-guarded session     *)
(* memory and the chat request handler (backend/routes/chat.py), the       *)
(* cosine-similarity retriever (backend/utils/similarity.py) and the word  *)
(* chunker (backend/utils/chunking.py).                                    *)
(*                                                                         *)
(* Strings are sequences of one-character strings, so that str.strip(),    *)
(* str.split() and " ".join() are computed and not assumed.  A text that   *)
(* is opaque to the code (a generated reply, the fallback sentence) is a   *)
(* one-element sequence holding the whole text.                            *)
(***************************************************************************)
EXTENDS Integers, Sequences, FiniteSets, TLC

\* ------------------------------------------------------------------ bounds
MaxAppends == 3
MaxChats == 2
MaxTextLen == 7
MaxChunkSize == 3
MaxDocs == 3

\* ------------------------------------------------------- program constants
MAX_SESSION_MESSAGES == 5
RETRIEVAL_TOP_K == 3
NO_CONTEXT_FALLBACK == <<"I don't know">>

\* ----------------------------------------------------------------- strings
IsSpace(c) == c = " "

RECURSIVE LStrip(_)
LStrip(s) ==
    IF s = <<>> THEN s
    ELSE IF IsSpace(Head(s)) THEN LStrip(Tail(s)) ELSE s

RECURSIVE RStrip(_)
RStrip(s) ==
    IF s = <<>> THEN s
    ELSE IF IsSpace(s[Len(s)]) THEN RStrip(SubSeq(s, 1, Len(s) - 1)) ELSE s

\* str.strip()
Strip(s) == RStrip(LStrip(s))

\* the length of the first word of s, which starts with a non-space
RECURSIVE WordLen(_)
WordLen(s) ==
    IF s = <<>> \/ IsSpace(Head(s)) THEN 0 ELSE 1 + WordLen(Tail(s))

\* str.split(): the maximal runs of non-space characters
RECURSIVE Split(_)
Split(s) ==
    LET t == LStrip(s) IN
    IF t = <<>> THEN <<>>
    ELSE <<SubSeq(t, 1, WordLen(t))>> \o Split(SubSeq(t, WordLen(t) + 1, Len(t)))

\* " ".join(words)
RECURSIVE Join(_)
Join(ws) ==
    IF ws = <<>> THEN <<>>
    ELSE IF Len(ws) = 1 THEN ws[1]
    ELSE ws[1] \o <<" ">> \o Join(Tail(ws))

\* Python's seq[a:b] for 0 <= a
Slice(s, a, b) == SubSeq(s, a + 1, IF b < Len(s) THEN b ELSE Len(s))

\* Python's seq[-n:] for n > 0
LastN(s, n) == IF n >= Len(s) THEN s ELSE SubSeq(s, Len(s) - n + 1, Len(s))

Min(a, b) == IF a <= b THEN a ELSE b

\* ----------------------------------------------------------------- chunker
\* raise ValueError(message): names are the parameters the message names
ValidationError(names) == [err |-> "ValueError", names |-> names, chunks |-> <<>>]

Returned(chunks) == [err |-> "none", names |-> {}, chunks |-> chunks]

\* the for loop over range(0, len(words), step), from index start on
RECURSIVE ChunkLoop(_, _, _, _)
ChunkLoop(words, start, chunk_size, step) ==
    IF start >= Len(words) THEN <<>>
    ELSE LET chunk_words == Slice(words, start, start + chunk_size) IN
         IF chunk_words = <<>> THEN <<>>
         ELSE <<Join(chunk_words)>> \o
              (IF start + chunk_size >= Len(words) THEN <<>>
               ELSE ChunkLoop(words, start + step, chunk_size, step))

\* the step as it would be if the overlap were forgotten
StepIsChunkSize(chunk_size, overlap) == chunk_size

\* step = chunk_size - overlap
ChunkStep(chunk_size, overlap) == chunk_size - overlap

\* chunk_text as it would be if it split the text, and returned [] for a text
\* without words, before it looked at its parameters
ChunkTextSplitFirst(text, chunk_size, overlap) ==
    IF Split(text) = <<>> THEN Returned(<<>>)
    ELSE IF chunk_size <= 0 THEN ValidationError({"chunk_size"})
    ELSE IF overlap < 0 THEN ValidationError({"overlap"})
    ELSE IF overlap >= chunk_size THEN ValidationError({"overlap", "chunk_size"})
    ELSE Returned(ChunkLoop(Split(text), 0, chunk_size, chunk_size - overlap))

chunk_text(text, chunk_size, overlap) ==
    IF chunk_size <= 0 THEN ValidationError({"chunk_size"})
    ELSE IF overlap < 0 THEN ValidationError({"overlap"})
    ELSE IF overlap >= chunk_size THEN ValidationError({"overlap", "chunk_size"})
    ELSE LET words == Split(text) IN
         IF words = <<>> THEN Returned(<<>>)
         ELSE Returned(ChunkLoop(words, 0, chunk_size, ChunkStep(chunk_size, overlap)))

\* --------------------------------------------------------------- retriever
\* A vector as the code receives it: tag "missing" (no "vector" key), "notlist"
\* (a value that is no list) or "list"; a list is numeric or holds an element
\* numpy cannot convert; val are its elements (integers here).
ListVec(val) == [tag |-> "list", numeric |-> TRUE, val |-> val]

\* A similarity is the real number num / sqrt(den2), den2 > 0, kept exact.
Score(num, den2) == [num |-> num, den2 |-> den2]

SignedSquare(x) == IF x >= 0 THEN x * x ELSE -(x * x)

\* s < t on the reals they stand for
ScoreLess(s, t) == SignedSquare(s.num) * t.den2 < SignedSquare(t.num) * s.den2

RECURSIVE Dot(_, _)
Dot(a, b) == IF a = <<>> THEN 0 ELSE Head(a) * Head(b) + Dot(Tail(a), Tail(b))

\* the outcome of cosine_similarity: a raised error or a score
Raised(kind) == [raised |-> kind, score |-> Score(0, 1)]

Value(score) == [raised |-> "none", score |-> score]

cosine_similarity(vec1, vec2) ==
    IF ~vec1.numeric \/ ~vec2.numeric THEN Raised("ValueError")
    ELSE IF vec1.val = <<>> \/ vec2.val = <<>> THEN Value(Score(0, 1))
    ELSE IF Len(vec1.val) # Len(vec2.val) THEN Raised("ValueError")
    ELSE LET denominator2 == Dot(vec1.val, vec1.val) * Dot(vec2.val, vec2.val) IN
         IF denominator2 = 0 THEN Value(Score(0, 1))
         ELSE Value(Score(Dot(vec1.val, vec2.val), denominator2))

\* score < threshold
BelowThreshold(score, threshold) == ScoreLess(score, threshold)

\* the outcome of retrieve_top_k: a raised error or the items it returns
Failed(kind) == [raised |-> kind, items |-> <<>>]

Items(items) == [raised |-> "none", items |-> items]

\* the except clause as it would be if it named TypeError alone
CaughtTypeError(kind) == kind = "TypeError"

\* except (ValueError, TypeError)
Caught(kind) == kind \in {"ValueError", "TypeError"}

\* the for loop over documents: the ranked list it builds, or the error that
\* ends it
RECURSIVE Rank(_, _, _)
Rank(query_vector, documents, threshold) ==
    IF documents = <<>> THEN Items(<<>>)
    ELSE LET doc == Head(documents)
             rest == Rank(query_vector, Tail(documents), threshold)
             sim == cosine_similarity(query_vector, doc.vector)
         IN  IF ~doc.isdict THEN rest
             ELSE IF doc.vector.tag # "list" \/ doc.vector.val = <<>> THEN rest
             ELSE IF sim.raised # "none"
                  THEN IF Caught(sim.raised) THEN rest ELSE Failed(sim.raised)
             ELSE IF BelowThreshold(sim.score, threshold) THEN rest
             ELSE IF rest.raised # "none" THEN rest
             ELSE Items(<<[content |-> doc.content, vector |-> doc.vector,
                           similarity |-> sim.score]>> \o rest.items)

\* the place of item as it would be if the sort put equal keys last-first:
\* before the first one with a similarity that is not greater
RECURSIVE InsertBeforeEqual(_, _)
InsertBeforeEqual(sorted, item) ==
    IF sorted = <<>> THEN <<item>>
    ELSE IF ~ScoreLess(item.similarity, Head(sorted).similarity)
         THEN <<item>> \o sorted
         ELSE <<Head(sorted)>> \o InsertBeforeEqual(Tail(sorted), item)

\* where a stable descending sort puts item among the sorted items: before the
\* first one with a strictly smaller similarity
RECURSIVE InsertDesc(_, _)
InsertDesc(sorted, item) ==
    IF sorted = <<>> THEN <<item>>
    ELSE IF ScoreLess(Head(sorted).similarity, item.similarity)
         THEN <<item>> \o sorted
         ELSE <<Head(sorted)>> \o InsertDesc(Tail(sorted), item)

\* ranked.sort(key=similarity, reverse=True): stable, equal keys keep their order
RECURSIVE SortDesc(_)
SortDesc(ranked) ==
    IF ranked = <<>> THEN <<>>
    ELSE InsertDesc(SortDesc(SubSeq(ranked, 1, Len(ranked) - 1)), ranked[Len(ranked)])

retrieve_top_k(query_vector, documents, k, threshold) ==
    IF k <= 0 THEN Items(<<>>)
    ELSE IF documents = <<>> THEN Items(<<>>)
    ELSE LET ranked == Rank(query_vector, documents, threshold) IN
         IF ranked.raised # "none" THEN ranked
         ELSE Items(Slice(SortDesc(ranked.items), 0, k))

\* ------------------------------------------------------------------- state
ProcSeq == <<"p1", "p2">>
Procs == {ProcSeq[i] : i \in 1..Len(ProcSeq)}
SessionSeq == << <<"s">>, <<"t">> >>
SessionIds == {SessionSeq[i] : i \in 1..Len(SessionSeq)}
Roles == {"user", "assistant", "system"}
Contents == {<<" ">>, <<" ", "a">>}
Limits == {0, 2}
Free == "free"

\* list objects: one per session, and per caller its messages, its slice, its
\* returned copy and its history
Refs == 1..(Cardinality(SessionIds) + 4 * Cardinality(Procs))
NoRef == Cardinality(Refs) + 1

VARIABLES
    session_memory,  \* the dict: session id -> its list object, NoRef when absent
    heap,            \* list object -> its elements
    session_memory_lock, \* the caller holding the Lock, or Free
    pc,              \* caller -> where it is
    ret,             \* caller -> where the function it is in returns to
    arg,             \* caller -> the parameters of the function it is in
    cleaned,         \* caller -> add_message's local
    messages,        \* caller -> the local of add_message / get_recent_messages
    sliced,          \* caller -> the value of messages[-MAX_SESSION_MESSAGES:]
    rv,              \* caller -> the list get_recent_messages returned to it
    req,             \* caller -> the locals and the response of chat, and what the
                     \*   request did: the messages it appended, the collaborators
                     \*   it called (embedder, store, generator) and their answers
    hist,            \* session id -> every message appended, in append order
    note,            \* caller -> what its call met: "rejected" (add_message returned
                     \*   at once), "unknown_session" (get_recent_messages found
                     \*   its session absent), or ""
    nappends,        \* valid add_message calls made by the callers
    nchats,          \* chat requests made
    chunkCall,       \* the chunker's call: its state, parameters and result
    retrCall         \* the retriever's call: its state, parameters and result

vars == <<session_memory, heap, session_memory_lock, pc, ret, arg, cleaned,
          messages, sliced, rv, req, hist, note, nappends, nchats, chunkCall,
          retrCall>>

NoArg == [session_id |-> <<>>, role |-> "", content |-> <<>>, limit |-> 0]
NoPrompt == [context |-> <<>>, history |-> <<>>, question |-> <<>>]
NoReq == [session_id |-> <<>>, message |-> <<>>, history |-> NoRef,
          query_vector |-> <<>>, retrieved |-> <<>>, prompt |-> NoPrompt,
          searched |-> FALSE, generated |-> 0, appended |-> <<>>, outcome |-> "",
          status |-> 0,
          reply |-> <<>>, retrievedChunks |-> 0,
          invoked |-> 0, signalled |-> "", collaborators |-> <<>>, alone |-> FALSE,
          upstream |-> [kind |-> "", api |-> FALSE, status |-> 0,
                        timeoutWord |-> FALSE, text |-> <<>>]]
ChunkOff == [state |-> "off", text |-> <<>>, chunk_size |-> 0, overlap |-> 0,
             result |-> Returned(<<>>)]
RetrOff == [state |-> "off", query_vector |-> <<>>, documents |-> <<>>, k |-> 0,
            threshold |-> Score(0, 1), result |-> Items(<<>>)]

\* Four earlier appends to session "s": one short of the cap.
FilledLog == << [role |-> "user", content |-> <<"a">>],
                [role |-> "assistant", content |-> <<"a">>],
                [role |-> "user", content |-> <<"a">>],
                [role |-> "assistant", content |-> <<"a">>] >>

\* The process has just started (no session), or session "s" has been filled
\* by four appends, so that a bounded run goes through the cap.
InitMemory(filled) ==
    /\ IF filled
       THEN /\ session_memory = [s \in SessionIds |-> IF s = <<"s">> THEN 1 ELSE NoRef]
            /\ heap = [r \in Refs |-> IF r = 1 THEN FilledLog ELSE <<>>]
            /\ hist = [s \in SessionIds |-> IF s = <<"s">> THEN FilledLog ELSE <<>>]
       ELSE /\ session_memory = [s \in SessionIds |-> NoRef]
            /\ heap = [r \in Refs |-> <<>>]
            /\ hist = [s \in SessionIds |-> <<>>]

\* ------------------------------------------------------------ list objects
\* the list objects some variable refers to
Live(sm, ms, sl, r, rq) ==
    ({sm[s] : s \in SessionIds} \cup {ms[p] : p \in Procs} \cup {sl[p] : p \in Procs}
        \cup {r[p] : p \in Procs} \cup {rq[p].history : p \in Procs}) \ {NoRef}

\* a list object nothing refers to
NewRef == CHOOSE r \in Refs : r \notin Live(session_memory, messages, sliced, rv, req)

\* Object identities carry no meaning, so every state names its list objects in
\* one fixed order: the order in which these references first name them.
Roots(sm, ms, sl, r, rq) ==
    [i \in 1..Len(SessionSeq) |-> sm[SessionSeq[i]]]
        \o [i \in 1..Len(ProcSeq) |-> ms[ProcSeq[i]]]
        \o [i \in 1..Len(ProcSeq) |-> sl[ProcSeq[i]]]
        \o [i \in 1..Len(ProcSeq) |-> r[ProcSeq[i]]]
        \o [i \in 1..Len(ProcSeq) |-> rq[ProcSeq[i]].history]

\* the list objects of R, each once, in the order R first names them
RECURSIVE Distinct(_, _)
Distinct(R, seen) ==
    IF R = <<>> THEN <<>>
    ELSE IF Head(R) = NoRef \/ Head(R) \in seen THEN Distinct(Tail(R), seen)
    ELSE <<Head(R)>> \o Distinct(Tail(R), seen \cup {Head(R)})

\* the new name of each list object: its place in order
Names(order) ==
    [x \in Refs \cup {NoRef} |->
        IF \E i \in 1..Len(order) : order[i] = x
        THEN CHOOSE i \in 1..Len(order) : order[i] = x
        ELSE NoRef]

\* The step's new references and heap h are stored; the objects nothing refers
\* to any more are freed.
Commit(sm, ms, sl, r, rq, h) ==
    \E order \in {Distinct(Roots(sm, ms, sl, r, rq), {})} :
        \E name \in {Names(order)} :
            /\ session_memory' = [s \in SessionIds |-> name[sm[s]]]
            /\ messages' = [p \in Procs |-> name[ms[p]]]
            /\ sliced' = [p \in Procs |-> name[sl[p]]]
            /\ rv' = [p \in Procs |-> name[r[p]]]
            /\ req' = [p \in Procs |-> [rq[p] EXCEPT !.history = name[@]]]
            /\ heap' = [n \in Refs |-> IF n <= Len(order) THEN h[order[n]] ELSE <<>>]

\* the log of a session as a value: empty when the session is absent
Log(s) == IF session_memory[s] = NoRef THEN <<>> ELSE heap[session_memory[s]]

Registered == {s \in SessionIds : session_memory[s] # NoRef}

\* ---------------------------------------------------------- session memory
Message(role, content) == [role |-> role, content |-> content]

\* the role test as it would be if it let every role through
AnyRole(role) == TRUE

\* role in {"user", "assistant"}
IsValidRole(role) == role \in {"user", "assistant"}

\* content.strip()
Cleaned(content) == Strip(content)

\* setdefault as it would be if it were a plain assignment of the new list
AlwaysFresh(sm, session_id, fresh) == [sm EXCEPT ![session_id] = fresh]

\* session_memory.setdefault(session_id, []) with fresh the new empty list
SetDefault(sm, session_id, fresh) ==
    IF sm[session_id] = NoRef THEN [sm EXCEPT ![session_id] = fresh] ELSE sm

\* the slice as it would be if it were one short, messages[-(MAX - 1):]
KeepOneLess(msgs) == LastN(msgs, MAX_SESSION_MESSAGES - 1)

\* the slice as it would be if it kept the oldest entries, messages[:MAX]
KeepOldest(msgs) == SubSeq(msgs, 1, Min(Len(msgs), MAX_SESSION_MESSAGES))

\* messages[-MAX_SESSION_MESSAGES:]
KeepRecent(msgs) == LastN(msgs, MAX_SESSION_MESSAGES)

\* the copy as it would be if it took the oldest entries, messages[:limit]
CopyOldest(msgs, limit) == SubSeq(msgs, 1, Min(Len(msgs), limit))

\* the copy as it would be if the slice were one short, messages[-limit:-1]
CopyButLast(msgs, limit) == LastN(SubSeq(msgs, 1, Len(msgs) - 1), limit)

\* [message.copy() for message in messages[-limit:]]
CopyRecent(msgs, limit) == LastN(msgs, limit)

\* the with block as it would be entered if the lock excluded nobody
NoLock == TRUE

\* `with session_memory_lock:` can be entered
CanAcquire == session_memory_lock = Free

\* the function p is in returns to its caller: its parameters and locals die
Leave(p) ==
    /\ pc' = [pc EXCEPT ![p] = ret[p]]
    /\ ret' = [ret EXCEPT ![p] = "idle"]
    /\ arg' = [arg EXCEPT ![p] = NoArg]
    /\ cleaned' = [cleaned EXCEPT ![p] = <<>>]
    /\ note' = [note EXCEPT ![p] = ""]

\* p calls add_message with parameters a, to return to label back; lines
\* 110-115: a bad role or a blank content returns at once
AddMessageCall(p, a, back) ==
    IF ~IsValidRole(a.role) \/ Cleaned(a.content) = <<>>
    THEN /\ pc' = [pc EXCEPT ![p] = back]
         /\ note' = [note EXCEPT ![p] = "rejected"]
         /\ UNCHANGED <<ret, arg, cleaned>>
    ELSE /\ pc' = [pc EXCEPT ![p] = "am_lock"]
         /\ ret' = [ret EXCEPT ![p] = back]
         /\ arg' = [arg EXCEPT ![p] = a]
         /\ cleaned' = [cleaned EXCEPT ![p] = Cleaned(a.content)]
         /\ note' = [note EXCEPT ![p] = ""]

\* lines 117-118: the lock is taken; messages = session_memory.setdefault(...)
AddMessageLock(p) ==
    /\ pc[p] = "am_lock"
    /\ CanAcquire
    /\ session_memory_lock' = p
    /\ pc' = [pc EXCEPT ![p] = "am_append"]
    /\ LET sm == SetDefault(session_memory, arg[p].session_id, NewRef) IN
       Commit(sm, [messages EXCEPT ![p] = sm[arg[p].session_id]], sliced, rv, req, heap)
    /\ UNCHANGED <<ret, arg, cleaned, hist, note, nappends, nchats, chunkCall,
                   retrCall>>

\* line 119: messages.append({"role": role, "content": cleaned})
AddMessageAppend(p) ==
    /\ pc[p] = "am_append"
    /\ hist' = [hist EXCEPT ![arg[p].session_id] =
                    Append(@, Message(arg[p].role, Strip(arg[p].content)))]
    /\ pc' = [pc EXCEPT ![p] = "am_len"]
    /\ heap' = [heap EXCEPT ![messages[p]] = Append(@, Message(arg[p].role, cleaned[p]))]
    /\ req' = [req EXCEPT ![p].appended =
                  IF ret[p] = "idle" THEN @ ELSE Append(@, Message(arg[p].role, cleaned[p]))]
    /\ UNCHANGED <<session_memory, session_memory_lock, ret, arg, cleaned, messages,
                   sliced, rv, note, nappends, nchats, chunkCall, retrCall>>

\* lines 120-121: len(messages) > MAX_SESSION_MESSAGES, and the slice is built
AddMessageLen(p) ==
    /\ pc[p] = "am_len"
    /\ IF Len(heap[messages[p]]) > MAX_SESSION_MESSAGES
       THEN /\ pc' = [pc EXCEPT ![p] = "am_store"]
            /\ Commit(session_memory, messages, [sliced EXCEPT ![p] = NewRef], rv, req,
                      [heap EXCEPT ![NewRef] = KeepRecent(heap[messages[p]])])
       ELSE /\ pc' = [pc EXCEPT ![p] = "am_unlock"]
            /\ UNCHANGED <<session_memory, messages, sliced, rv, req, heap>>
    /\ UNCHANGED <<session_memory_lock, ret, arg, cleaned, hist, note, nappends,
                   nchats, chunkCall, retrCall>>

\* line 121: session_memory[session_id] = the slice
AddMessageStore(p) ==
    /\ pc[p] = "am_store"
    /\ pc' = [pc EXCEPT ![p] = "am_unlock"]
    /\ Commit([session_memory EXCEPT ![arg[p].session_id] = sliced[p]], messages,
              sliced, rv, req, heap)
    /\ UNCHANGED <<session_memory_lock, ret, arg, cleaned, hist, note, nappends,
                   nchats, chunkCall, retrCall>>

\* the with block ends: the lock is released and add_message returns
AddMessageRelease(p) ==
    /\ pc[p] = "am_unlock"
    /\ session_memory_lock' = Free
    /\ Leave(p)
    /\ Commit(session_memory, [messages EXCEPT ![p] = NoRef],
              [sliced EXCEPT ![p] = NoRef], rv, req, heap)
    /\ UNCHANGED <<hist, nappends, nchats, chunkCall, retrCall>>

\* p calls get_recent_messages with parameters a, to return to label back;
\* lines 126-127: limit <= 0 returns a new empty list at once
GetRecentCall(p, a, back) ==
    IF a.limit <= 0
    THEN /\ pc' = [pc EXCEPT ![p] = back]
         /\ Commit(session_memory, messages, sliced, [rv EXCEPT ![p] = NewRef], req,
                   [heap EXCEPT ![NewRef] = <<>>])
         /\ note' = [note EXCEPT ![p] = ""]
         /\ UNCHANGED <<ret, arg>>
    ELSE /\ pc' = [pc EXCEPT ![p] = "gr_lock"]
         /\ ret' = [ret EXCEPT ![p] = back]
         /\ arg' = [arg EXCEPT ![p] = a]
         /\ note' = [note EXCEPT ![p] = ""]
         /\ Commit(session_memory, messages, sliced, [rv EXCEPT ![p] = NoRef], req, heap)

\* lines 129-130: the lock is taken; messages = session_memory.setdefault(...)
GetRecentLock(p) ==
    /\ pc[p] = "gr_lock"
    /\ CanAcquire
    /\ session_memory_lock' = p
    /\ note' = [note EXCEPT ![p] = IF session_memory[arg[p].session_id] = NoRef
                                    THEN "unknown_session" ELSE ""]
    /\ pc' = [pc EXCEPT ![p] = "gr_copy"]
    /\ LET sm == SetDefault(session_memory, arg[p].session_id, NewRef) IN
       Commit(sm, [messages EXCEPT ![p] = sm[arg[p].session_id]], sliced, rv, req, heap)
    /\ UNCHANGED <<ret, arg, cleaned, hist, nappends, nchats, chunkCall, retrCall>>

\* line 131: the copy of messages[-limit:] is built
GetRecentCopy(p) ==
    /\ pc[p] = "gr_copy"
    /\ pc' = [pc EXCEPT ![p] = "gr_unlock"]
    /\ Commit(session_memory, messages, sliced, [rv EXCEPT ![p] = NewRef], req,
              [heap EXCEPT ![NewRef] = CopyRecent(heap[messages[p]], arg[p].limit)])
    /\ UNCHANGED <<session_memory_lock, ret, arg, cleaned, hist, note, nappends,
                   nchats, chunkCall, retrCall>>

\* the with block ends: the lock is released and the copy is returned
GetRecentRelease(p) ==
    /\ pc[p] = "gr_unlock"
    /\ session_memory_lock' = Free
    /\ Leave(p)
    /\ Commit(session_memory, [messages EXCEPT ![p] = NoRef], sliced, rv, req, heap)
    /\ UNCHANGED <<hist, nappends, nchats, chunkCall, retrCall>>

\* a caller calls add_message(session_id, role, content); what an earlier call
\* returned to it is dropped
CallAddMessage(p, session_id, role, content) ==
    /\ pc[p] = "idle"
    /\ nappends < MaxAppends
    /\ AddMessageCall(p, [NoArg EXCEPT !.session_id = session_id, !.role = role,
                                       !.content = content], "idle")
    /\ nappends' = IF pc'[p] = "idle" THEN nappends ELSE nappends + 1
    /\ Commit(session_memory, messages, sliced, [rv EXCEPT ![p] = NoRef], req, heap)
    /\ UNCHANGED <<session_memory_lock, hist, nchats, chunkCall, retrCall>>

\* a caller calls get_recent_messages(session_id, limit)
CallGetRecentMessages(p, session_id, limit) ==
    /\ pc[p] = "idle"
    /\ GetRecentCall(p, [NoArg EXCEPT !.session_id = session_id, !.limit = limit],
                     "idle")
    /\ UNCHANGED <<session_memory_lock, cleaned, hist, nappends, nchats, chunkCall,
                   retrCall>>

\* the steps of session memory's functions, whoever called them
MemoryStep(p) ==
    \/ AddMessageLock(p)
    \/ AddMessageAppend(p)
    \/ AddMessageLen(p)
    \/ AddMessageStore(p)
    \/ AddMessageRelease(p)
    \/ GetRecentLock(p)
    \/ GetRecentCopy(p)
    \/ GetRecentRelease(p)

\* the calls a caller of session memory makes
MemoryCall(p) ==
    \/ \E s \in SessionIds, r \in Roles, c \in Contents : CallAddMessage(p, s, r, c)
    \/ \E s \in SessionIds, l \in Limits : CallGetRecentMessages(p, s, l)

\* -------------------------------------------------------------------- chat
RawSessionIds == {<<" ">>, <<"s", " ">>, <<"t">>}
RawMessages == {<<" ">>, <<" ", "q">>}
QueryVectors == {<<>>, <<1, 0>>}

Entry(content, val) == [isdict |-> TRUE, content |-> content, vector |-> ListVec(val)]

\* what _load_vector_store finds: no usable file, or a store (a list, which may
\* be empty)
StoreOutcomes ==
    { [ok |-> FALSE, documents |-> <<>>],
      [ok |-> TRUE, documents |-> <<>>],
      [ok |-> TRUE, documents |-> <<Entry("c1", <<0, 1>>)>>],
      [ok |-> TRUE, documents |-> <<Entry("c1", <<4, 3>>), Entry("c2", <<1>>),
                                    Entry("c3", <<1, 0>>)>>] }

\* what the Gemini call does: the client cannot be made, the call raises (an
\* APIError with a status, or another exception, whose message may name a
\* timeout), or a response comes back with a text
GenOutcome(kind, api, status, timeoutWord, text) ==
    [kind |-> kind, api |-> api, status |-> status, timeoutWord |-> timeoutWord,
     text |-> text]

GenOutcomes ==
    { GenOutcome("no_client", FALSE, 0, FALSE, <<>>),
      GenOutcome("raise", TRUE, 504, FALSE, <<>>),
      GenOutcome("raise", TRUE, 408, FALSE, <<>>),
      GenOutcome("raise", TRUE, 500, TRUE, <<>>),
      GenOutcome("raise", FALSE, 0, TRUE, <<>>),
      GenOutcome("raise", FALSE, 0, FALSE, <<>>),
      GenOutcome("response", FALSE, 0, FALSE, <<" ">>),
      GenOutcome("response", FALSE, 0, FALSE, <<"r", " ">>) }

SIMILARITY_THRESHOLD == Score(7, 100)

NoPriorHistory == << <<"No prior history.">> >>

\* the lines of _format_history, one string each
RECURSIVE HistoryLines(_)
HistoryLines(history) ==
    IF history = <<>> THEN <<>>
    ELSE LET message == Head(history)
             content == Strip(message.content)
             speaker == IF message.role = "assistant" THEN "Assistant" ELSE "User"
         IN  IF content = <<>> THEN HistoryLines(Tail(history))
             ELSE <<(<<speaker, ": ">> \o content)>> \o HistoryLines(Tail(history))

FormatHistory(history) ==
    IF history = <<>> THEN NoPriorHistory
    ELSE IF HistoryLines(history) = <<>> THEN NoPriorHistory
    ELSE HistoryLines(history)

BuildPrompt(question, retrieved_chunks, history) ==
    [context |-> [i \in 1..Len(retrieved_chunks) |-> retrieved_chunks[i].content],
     history |-> FormatHistory(history),
     question |-> question]

\* _extract_reply on a response whose text is text and which has no candidates
ExtractReply(text) == Strip(text)

\* the except clause of _call_gemini_llm: the error it raises for exception o
IsTimeout(o) ==
    IF o.api THEN o.status \in {408, 504} ELSE o.timeoutWord

\* what _call_gemini_llm does when the Gemini call behaves as o: the error it
\* raises, or the reply it returns
Signal(raised, reply) == [raised |-> raised, reply |-> reply]

CallGeminiLlm(o) ==
    IF o.kind = "no_client" THEN Signal("GeminiAPIError", <<>>)
    ELSE IF o.kind = "raise"
         THEN IF IsTimeout(o) THEN Signal("GeminiTimeoutError", <<>>)
              ELSE Signal("GeminiAPIError", <<>>)
    ELSE IF ExtractReply(o.text) = <<>> THEN Signal("GeminiAPIError", <<>>)
    ELSE Signal("none", ExtractReply(o.text))

\* the except clauses as they would be with `except GeminiAPIError` first: it
\* catches GeminiTimeoutError too, which is its subclass
StatusApiErrorFirst(raised) == 502

\* the except clauses of chat, lines 292-295: the HTTP status for the error
StatusForError(raised) == IF raised = "GeminiTimeoutError" THEN 504 ELSE 502

\* the test as it would be if the fallback branch were never taken
AlwaysContext(retrieved) == FALSE

\* `if not retrieved`
NoContext(retrieved) == retrieved = <<>>

\* the request of p ends with an HTTP status: its locals die, the response stays
Respond(p, rq, outcome, status, reply, retrievedChunks) ==
    /\ pc' = [pc EXCEPT ![p] = "idle"]
    /\ Commit(session_memory, messages, sliced, [rv EXCEPT ![p] = NoRef],
              [req EXCEPT ![p] = [rq EXCEPT !.history = NoRef, !.outcome = outcome,
                                           !.status = status, !.reply = reply,
                                           !.retrievedChunks = retrievedChunks]],
              heap)

\* the checks as they would be if only the session id were looked at
BlankSessionOnly(session_id, message) == session_id = <<>>

\* lines 252-255: `if not session_id` and `if not message`, each a 400
IsBlankRequest(session_id, message) == session_id = <<>> \/ message = <<>>

\* the requests once p has started request rq: rq is alone on its session when
\* no other caller is in a request on it, and a request whose session another
\* request starts on is alone no more
Started(p, rq) ==
    [q \in Procs |->
        IF q = p
        THEN [rq EXCEPT !.alone = \A o \in Procs \ {p} :
                                      pc[o] = "idle" \/ req[o].session_id # rq.session_id]
        ELSE IF req[q].session_id = rq.session_id THEN [req[q] EXCEPT !.alone = FALSE]
        ELSE req[q]]

\* POST /api/chat, lines 249-255: the identifiers are stripped and checked
CallChat(p, sessionId, message) ==
    /\ pc[p] = "idle"
    /\ nchats < MaxChats
    /\ LET rq == [NoReq EXCEPT !.session_id = Strip(sessionId),
                               !.message = Strip(message)]
       IN  IF IsBlankRequest(rq.session_id, rq.message)
           THEN /\ Respond(p, rq, "bad_request", 400, <<>>, 0)
                /\ nchats' = nchats
           ELSE /\ pc' = [pc EXCEPT ![p] = "ch_lock"]
                /\ Commit(session_memory, messages, sliced, [rv EXCEPT ![p] = NoRef],
                          Started(p, rq), heap)
                /\ nchats' = nchats + 1
    /\ note' = [note EXCEPT ![p] = ""]
    /\ UNCHANGED <<session_memory_lock, ret, arg, cleaned, hist, nappends, chunkCall,
                   retrCall>>

\* lines 257-258: with the lock, session_memory.setdefault(session_id, [])
ChatLock(p) ==
    /\ pc[p] = "ch_lock"
    /\ CanAcquire
    /\ session_memory_lock' = p
    /\ pc' = [pc EXCEPT ![p] = "ch_unlock"]
    /\ Commit(SetDefault(session_memory, req[p].session_id, NewRef), messages, sliced,
              rv, req, heap)
    /\ UNCHANGED <<ret, arg, cleaned, hist, note, nappends, nchats, chunkCall,
                   retrCall>>

\* the with block ends; line 259: add_message(session_id, "user", message)
ChatAddUser(p) ==
    /\ pc[p] = "ch_unlock"
    /\ session_memory_lock' = Free
    /\ AddMessageCall(p, [NoArg EXCEPT !.session_id = req[p].session_id,
                                       !.role = "user", !.content = req[p].message],
                      "ch_history")
    /\ UNCHANGED <<session_memory, heap, messages, sliced, rv, req, hist, nappends,
                   nchats, chunkCall, retrCall>>

\* line 260: history = get_recent_messages(session_id, limit=MAX_SESSION_MESSAGES)
ChatHistory(p) ==
    /\ pc[p] = "ch_history"
    /\ GetRecentCall(p, [NoArg EXCEPT !.session_id = req[p].session_id,
                                      !.limit = MAX_SESSION_MESSAGES], "ch_embed")
    /\ UNCHANGED <<session_memory_lock, cleaned, hist, nappends, nchats, chunkCall,
                   retrCall>>

\* lines 260-267: history is bound; the query is embedded, an empty vector is a 502
ChatEmbed(p) ==
    /\ pc[p] = "ch_embed"
    /\ \E query_vector \in QueryVectors :
          LET rq == [req[p] EXCEPT !.history = rv[p], !.query_vector = query_vector,
                                   !.collaborators = Append(@, "embed")]
          IN  IF query_vector = <<>>
              THEN Respond(p, rq, "embed_failed", 502, <<>>, 0)
              ELSE /\ pc' = [pc EXCEPT ![p] = "ch_retrieve"]
                   /\ Commit(session_memory, messages, sliced, [rv EXCEPT ![p] = NoRef],
                             [req EXCEPT ![p] = rq], heap)
    /\ UNCHANGED <<session_memory_lock, ret, arg, cleaned, hist, note, nappends,
                   nchats, chunkCall, retrCall>>

\* lines 269-283: the store is loaded (a failure is a 500) and searched (an
\* error of the search is not caught: a 500); with nothing retrieved the
\* fallback is appended as the assistant's message
ChatRetrieve(p) ==
    /\ pc[p] = "ch_retrieve"
    /\ \E store \in StoreOutcomes :
          LET found == retrieve_top_k(ListVec(req[p].query_vector), store.documents,
                                      RETRIEVAL_TOP_K, SIMILARITY_THRESHOLD)
              retrieved == found.items
              loaded == [req[p] EXCEPT !.collaborators = Append(@, "store")]
              rq == [loaded EXCEPT !.searched = TRUE, !.retrieved = retrieved]
          IN  IF ~store.ok
              THEN /\ Respond(p, loaded, "store_unavailable", 500, <<>>, 0)
                   /\ UNCHANGED <<ret, arg, cleaned, note>>
              ELSE IF found.raised # "none"
              THEN /\ Respond(p, loaded, "internal_error", 500, <<>>, 0)
                   /\ UNCHANGED <<ret, arg, cleaned, note>>
              ELSE /\ req' = [req EXCEPT ![p] = rq]
                   /\ UNCHANGED <<session_memory, heap, messages, sliced, rv>>
                   /\ IF NoContext(retrieved)
                      THEN AddMessageCall(p, [NoArg EXCEPT
                                                 !.session_id = req[p].session_id,
                                                 !.role = "assistant",
                                                 !.content = NO_CONTEXT_FALLBACK],
                                          "ch_fallback")
                      ELSE /\ pc' = [pc EXCEPT ![p] = "ch_generate"]
                           /\ UNCHANGED <<ret, arg, cleaned, note>>
    /\ UNCHANGED <<session_memory_lock, hist, nappends, nchats, chunkCall, retrCall>>

\* line 283: return ChatResponse(reply=NO_CONTEXT_FALLBACK, retrievedChunks=0)
ChatFallback(p) ==
    /\ pc[p] = "ch_fallback"
    /\ Respond(p, req[p], "no_context", 200, NO_CONTEXT_FALLBACK, 0)
    /\ UNCHANGED <<session_memory_lock, ret, arg, cleaned, hist, note, nappends,
                   nchats, chunkCall, retrCall>>

\* lines 285-297: the prompt is built and _call_gemini_llm called once; a
\* timeout is a 504, another failure or an empty reply a 502, a reply is appended
ChatGenerate(p) ==
    /\ pc[p] = "ch_generate"
    /\ \E o \in GenOutcomes :
          LET prompt == BuildPrompt(req[p].message, req[p].retrieved,
                                    heap[req[p].history])
              signal == CallGeminiLlm(o)
              called == [req[p] EXCEPT
                            !.prompt = prompt,
                            !.generated = IF o.kind = "no_client" THEN @ ELSE @ + 1,
                            !.invoked = @ + 1,
                            !.collaborators = Append(@, "generate"),
                            !.upstream = o,
                            !.signalled = signal.raised]
          IN  IF signal.raised # "none"
              THEN /\ Respond(p, called,
                              IF StatusForError(signal.raised) = 504 THEN "timeout"
                              ELSE "upstream_error",
                              StatusForError(signal.raised), <<>>, 0)
                   /\ UNCHANGED <<ret, arg, cleaned, note>>
              ELSE /\ req' = [req EXCEPT ![p] = [called EXCEPT !.reply = signal.reply]]
                   /\ UNCHANGED <<session_memory, heap, messages, sliced, rv>>
                   /\ AddMessageCall(p, [NoArg EXCEPT !.session_id = req[p].session_id,
                                                      !.role = "assistant",
                                                      !.content = signal.reply],
                                     "ch_reply")
    /\ UNCHANGED <<session_memory_lock, hist, nappends, nchats, chunkCall, retrCall>>

\* line 298: return ChatResponse(reply=reply, retrievedChunks=len(retrieved))
ChatReply(p) ==
    /\ pc[p] = "ch_reply"
    /\ Respond(p, req[p], "answered", 200, req[p].reply, Len(req[p].retrieved))
    /\ UNCHANGED <<session_memory_lock, ret, arg, cleaned, hist, note, nappends,
                   nchats, chunkCall, retrCall>>

\* the steps of a chat request
ChatStep(p) ==
    \/ ChatLock(p)
    \/ ChatAddUser(p)
    \/ ChatHistory(p)
    \/ ChatEmbed(p)
    \/ ChatRetrieve(p)
    \/ ChatFallback(p)
    \/ ChatGenerate(p)
    \/ ChatReply(p)

\* ------------------------------------------------------- the pure functions
Chars == {"a", "b", " "}
Texts == UNION {[1..n -> Chars] : n \in 0..MaxTextLen}
ChunkSizes == (-1)..MaxChunkSize
Overlaps == (-1)..MaxChunkSize

\* a caller calls chunk_text(text, chunk_size, overlap)
ChunkText ==
    /\ chunkCall.state = "called"
    /\ chunkCall' = [chunkCall EXCEPT
                        !.state = "returned",
                        !.result = chunk_text(chunkCall.text, chunkCall.chunk_size,
                                              chunkCall.overlap)]
    /\ UNCHANGED <<session_memory, heap, session_memory_lock, pc, ret, arg, cleaned,
                   messages, sliced, rv, req, hist, note, nappends, nchats, retrCall>>

\* The entries a loaded store can hold (json.load gives any JSON value): one
\* that is no object, one with no vector, with a vector that is no list, with an
\* empty list, with a list numpy cannot convert, with a list of another length
\* than the query, and well-formed ones (one of them opposite to the query, one
\* of norm zero).
OtherVector(tag) == [tag |-> tag, numeric |-> FALSE, val |-> <<>>]

EntryShapes ==
    { [isdict |-> FALSE, content |-> 0, vector |-> OtherVector("missing")],
      [isdict |-> TRUE, content |-> 0, vector |-> OtherVector("missing")],
      [isdict |-> TRUE, content |-> 0, vector |-> OtherVector("notlist")],
      [isdict |-> TRUE, content |-> 0, vector |-> ListVec(<<>>)],
      [isdict |-> TRUE, content |-> 0,
       vector |-> [tag |-> "list", numeric |-> FALSE, val |-> <<1, 0>>]],
      [isdict |-> TRUE, content |-> 0, vector |-> ListVec(<<1>>)],
      [isdict |-> TRUE, content |-> 0, vector |-> ListVec(<<1, 0>>)],
      [isdict |-> TRUE, content |-> 0, vector |-> ListVec(<<2, 0>>)],
      [isdict |-> TRUE, content |-> 0, vector |-> ListVec(<<4, 3>>)],
      [isdict |-> TRUE, content |-> 0, vector |-> ListVec(<<3, 4>>)],
      [isdict |-> TRUE, content |-> 0, vector |-> ListVec(<<-1, 0>>)],
      [isdict |-> TRUE, content |-> 0, vector |-> ListVec(<<0, 0>>)] }

\* the stores of n entries; the content of an entry is its place in the store
Stores(n) ==
    {[i \in 1..n |-> [shapes[i] EXCEPT !.content = i]] : shapes \in [1..n -> EntryShapes]}

DocumentLists == UNION {Stores(n) : n \in 0..MaxDocs}
Queries == {<<1, 0>>, <<>>}
TopKs == 0..MaxDocs
Thresholds == {Score(0, 1), Score(3, 25), Score(7, 100)}

\* a caller calls retrieve_top_k(query_vector, documents, k, threshold)
RetrieveTopK ==
    /\ retrCall.state = "called"
    /\ retrCall' = [retrCall EXCEPT
                       !.state = "returned",
                       !.result = retrieve_top_k(ListVec(retrCall.query_vector),
                                                 retrCall.documents, retrCall.k,
                                                 retrCall.threshold)]
    /\ UNCHANGED <<session_memory, heap, session_memory_lock, pc, ret, arg, cleaned,
                   messages, sliced, rv, req, hist, note, nappends, nchats, chunkCall>>

\* ---------------------------------------------------------- specifications
InitIdle ==
    /\ pc = [p \in Procs |-> "idle"]
    /\ ret = [p \in Procs |-> "idle"]
    /\ arg = [p \in Procs |-> NoArg]
    /\ cleaned = [p \in Procs |-> <<>>]
    /\ messages = [p \in Procs |-> NoRef]
    /\ sliced = [p \in Procs |-> NoRef]
    /\ rv = [p \in Procs |-> NoRef]
    /\ req = [p \in Procs |-> NoReq]
    /\ note = [p \in Procs |-> ""]
    /\ session_memory_lock = Free
    /\ nappends = 0
    /\ nchats = 0

Init ==
    /\ \E filled \in BOOLEAN : InitMemory(filled)
    /\ InitIdle
    /\ chunkCall = ChunkOff
    /\ retrCall = RetrOff

\* callers of session memory, running concurrently
Next == \E p \in Procs : MemoryCall(p) \/ MemoryStep(p)

Spec == Init /\ [][Next]_vars

\* chat requests, running concurrently
NextChat ==
    \E p \in Procs :
        \/ \E sessionId \in RawSessionIds, message \in RawMessages :
              CallChat(p, sessionId, message)
        \/ ChatStep(p)
        \/ MemoryStep(p)

SpecChat == Init /\ [][NextChat]_vars

\* calls of the chunker
InitChunk ==
    /\ InitMemory(FALSE)
    /\ InitIdle
    /\ retrCall = RetrOff
    /\ \E text \in Texts, chunk_size \in ChunkSizes, overlap \in Overlaps :
          chunkCall = [ChunkOff EXCEPT !.state = "called", !.text = text,
                                       !.chunk_size = chunk_size, !.overlap = overlap]

SpecChunk == InitChunk /\ [][ChunkText]_vars

\* calls of the retriever
InitRetrieve ==
    /\ InitMemory(FALSE)
    /\ InitIdle
    /\ chunkCall = ChunkOff
    /\ \E query_vector \in Queries, documents \in DocumentLists, k \in TopKs,
          threshold \in Thresholds :
          retrCall = [RetrOff EXCEPT !.state = "called", !.query_vector = query_vector,
                                     !.documents = documents, !.k = k,
                                     !.threshold = threshold]

SpecRetrieve == InitRetrieve /\ [][RetrieveTopK]_vars

\* ------------------------------------------------------------- properties
\* the callers inside a `with session_memory_lock:` block
InLock == {p \in Procs : pc[p] \in {"am_append", "am_len", "am_store", "am_unlock",
                                    "gr_copy", "gr_unlock", "ch_unlock"}}

\* an append to session s is between its append and its truncation
Truncating(s) ==
    \E p \in Procs : pc[p] \in {"am_len", "am_store"} /\ arg[p].session_id = s

\* the last min(n, cap) elements of h, oldest first
LastUpTo(h, cap) ==
    LET n == Min(Len(h), cap) IN [i \in 1..n |-> h[Len(h) - n + i]]

\* a stored message: a role of {user, assistant} and a trimmed, non-empty content
WellFormed(m) ==
    /\ m.role \in {"user", "assistant"}
    /\ m.content # <<>>
    /\ ~IsSpace(m.content[1])
    /\ ~IsSpace(m.content[Len(m.content)])

\* C1: once an append has finished its truncation, the log of its session is
\* the last min(n, 5) of the n valid messages appended to it so far, each as
\* {role, trimmed content} and in append order; so the log holds at most 5
\* messages and the oldest are the ones dropped.
C1_LogIsLastFiveAppended ==
    \A s \in SessionIds :
        ~Truncating(s) =>
            /\ Log(s) = LastUpTo(hist[s], 5)
            /\ Len(Log(s)) <= 5
            /\ \A i \in 1..Len(Log(s)) : WellFormed(Log(s)[i])

\* C1 witness: more than 5 valid messages were appended to a session and no
\* append is under way
C1_Witness ==
    /\ \A p \in Procs : pc[p] = "idle"
    /\ \E s \in SessionIds : Len(hist[s]) > 5 /\ Len(Log(s)) = 5

\* C2: concurrent callers exclude each other in the locked blocks; every valid
\* append call appends exactly once (the appends made and the ones still to be
\* made add up to the valid calls); with hist the one total order of the
\* appends, the log of a session no append is truncating is the last
\* min(N, 5) of that order; and what a recent call returns is the last
\* `limit` messages of the log as it stood after some prefix of that order.
C2_AppendsAreAtomic ==
    /\ Cardinality(InLock) <= 1
    /\ \A p \in InLock : session_memory_lock = p
    /\ \E filled \in {0, Len(FilledLog)} :
          Len(hist[SessionSeq[1]]) + Len(hist[SessionSeq[2]])
              + Cardinality({p \in Procs : pc[p] \in {"am_lock", "am_append"}})
            = filled + nappends
    /\ \A s \in SessionIds : ~Truncating(s) => Log(s) = LastUpTo(hist[s], 5)
    /\ \A p \in Procs :
          pc[p] = "gr_unlock" =>
              \E j \in 0..Len(hist[arg[p].session_id]) :
                  heap[rv[p]] =
                      LastUpTo(LastUpTo(SubSeq(hist[arg[p].session_id], 1, j), 5),
                               arg[p].limit)

\* C2 witness: a caller has appended past the cap and still holds the lock
\* while another caller waits to append to the same session
C2_Witness ==
    \E p, q \in Procs :
        /\ pc[p] = "am_unlock"
        /\ pc[q] = "am_lock"
        /\ arg[p].session_id = arg[q].session_id
        /\ Len(hist[arg[p].session_id]) > 5

\* C3: a call of add_message with a role outside {user, assistant}, or with a
\* content that is empty after trimming, returns at once without an error and
\* changes nothing: the same sessions are registered and every log is as before.
C3_InvalidAppendIsNoOp ==
    [][\A p \in Procs, s \in SessionIds, r \in Roles, c \in Contents :
          (CallAddMessage(p, s, r, c) /\ (r \notin {"user", "assistant"} \/ Strip(c) = <<>>))
              => /\ pc'[p] = "idle"
                 /\ Registered' = Registered
                 /\ \A t \in SessionIds : Log(t)' = Log(t)
                 /\ hist' = hist
                 /\ session_memory_lock' = session_memory_lock]_vars

\* C3 witness: a call was turned down while a session held messages
C3_Witness ==
    \E p \in Procs :
        /\ note[p] = "rejected"
        /\ pc[p] = "idle"
        /\ \E s \in SessionIds : Len(Log(s)) >= 2

\* a step of caller q
StepOf(q) == MemoryCall(q) \/ MemoryStep(q)

\* C4: get_recent_messages with limit > 0 returns exactly the last
\* min(limit, length) messages of the session's log, oldest first, and the
\* empty list when the session was unknown; with limit <= 0 it returns the
\* empty list at once, without an error; and the list a caller got back keeps
\* its value whatever the other callers do afterwards.
C4_RecentIsSnapshotOfTail ==
    /\ [](\A p \in Procs :
            pc[p] = "gr_unlock" =>
                /\ arg[p].limit > 0
                /\ rv[p] # NoRef
                /\ rv[p] # session_memory[arg[p].session_id]
                /\ heap[rv[p]] = LastUpTo(Log(arg[p].session_id), arg[p].limit)
                /\ note[p] = "unknown_session" => heap[rv[p]] = <<>>)
    /\ [][/\ \A p \in Procs, s \in SessionIds, l \in Limits :
                (CallGetRecentMessages(p, s, l) /\ l <= 0)
                    => /\ pc'[p] = "idle"
                       /\ rv'[p] # NoRef
                       /\ heap'[rv'[p]] = <<>>
          /\ \A p \in Procs :
                GetRecentRelease(p)
                    => /\ pc'[p] = "idle"
                       /\ rv'[p] # NoRef
                       /\ heap'[rv'[p]] = heap[rv[p]]
          /\ \A p, q \in Procs :
                (p # q /\ StepOf(q) /\ pc[p] = "idle" /\ rv[p] # NoRef)
                    => /\ rv'[p] # NoRef
                       /\ heap'[rv'[p]] = heap[rv[p]]]_vars

\* C4 witness: a caller holds the two messages it got back from a log that
\* another caller has since appended to beyond the cap
C4_Witness ==
    \E p \in Procs, s \in SessionIds :
        /\ pc[p] = "idle"
        /\ rv[p] # NoRef
        /\ Len(heap[rv[p]]) = 2
        /\ Len(hist[s]) > 5
        /\ heap[rv[p]] # LastUpTo(Log(s), 2)

\* C5 as claimed: a call of get_recent_messages on a session that is not in the
\* mapping registers an empty log for it whatever the limit, and changes
\* nothing else.
C5_RecentAlwaysRegisters ==
    [][\A p \in Procs :
          /\ \A s \in SessionIds, l \in Limits :
                (CallGetRecentMessages(p, s, l) /\ pc'[p] = "idle")
                    => /\ Registered' = Registered \cup {s}
                       /\ \A t \in SessionIds : Log(t)' = Log(t)
          /\ GetRecentLock(p)
                => /\ Registered' = Registered \cup {arg[p].session_id}
                   /\ \A t \in SessionIds : Log(t)' = Log(t)]_vars

\* C5: a call of get_recent_messages with limit > 0 on a session that is not in
\* the mapping registers an empty log for it, and one with limit <= 0 registers
\* nothing; either way no log changes, and a call on a registered session
\* leaves the mapping as it is.
C5_RecentRegistersWhenLimitPositive ==
    [][\A p \in Procs :
          /\ \A s \in SessionIds, l \in Limits :
                CallGetRecentMessages(p, s, l)
                    => /\ Registered' = Registered
                       /\ \A t \in SessionIds : Log(t)' = Log(t)
                       /\ l <= 0 <=> pc'[p] = "idle"
          /\ GetRecentLock(p)
                => /\ arg[p].limit > 0
                   /\ Registered' = Registered \cup {arg[p].session_id}
                   /\ \A t \in SessionIds : Log(t)' = Log(t)
          /\ (GetRecentCopy(p) \/ GetRecentRelease(p))
                => /\ Registered' = Registered
                   /\ \A t \in SessionIds : Log(t)' = Log(t)]_vars

\* C5 witness: a call with limit > 0 found its session absent and registered it
\* with an empty log, next to a session that holds messages
C5_Witness ==
    \E p \in Procs :
        /\ pc[p] = "gr_unlock"
        /\ note[p] = "unknown_session"
        /\ arg[p].session_id \in Registered
        /\ Log(arg[p].session_id) = <<>>
        /\ \E t \in SessionIds : Log(t) # <<>>

\* the call retrieve_top_k(query, documents, k, threshold) that has returned
Query == ListVec(retrCall.query_vector)

\* entry i is well formed: an object whose vector is a non-empty list that
\* similarity accepts next to the query
Scored(i) ==
    LET doc == retrCall.documents[i] IN
    /\ doc.isdict
    /\ doc.vector.tag = "list"
    /\ doc.vector.val # <<>>
    /\ cosine_similarity(Query, doc.vector).raised = "none"

Sim(i) == cosine_similarity(Query, retrCall.documents[i].vector).score

\* the well-formed entries whose similarity is at least the threshold
Kept ==
    {i \in 1..Len(retrCall.documents) :
        Scored(i) /\ ~ScoreLess(Sim(i), retrCall.threshold)}

\* entry i comes before entry j: a higher similarity, or the same one and an
\* earlier place in the input
Before(i, j) ==
    \/ ScoreLess(Sim(j), Sim(i))
    \/ ~ScoreLess(Sim(i), Sim(j)) /\ i < j

\* C6: retrieve_top_k returns the first k of the well-formed entries with
\* similarity >= threshold (equality kept), ordered by similarity descending
\* and, among equal similarities, by input order: the n-th item returned is the
\* kept entry with n - 1 kept entries before it; so there are never more than
\* k items, none below the threshold, and none when k <= 0 or there is no entry.
C6_TopKOfKeptInStableOrder ==
    retrCall.state = "returned" =>
        LET items == retrCall.result.items IN
        /\ retrCall.result.raised = "none"
        /\ Len(items) = IF retrCall.k <= 0 THEN 0
                        ELSE Min(retrCall.k, Cardinality(Kept))
        /\ Len(items) <= IF retrCall.k <= 0 THEN 0 ELSE retrCall.k
        /\ \A n \in 1..Len(items) :
              /\ items[n].content \in Kept
              /\ Cardinality({j \in Kept : Before(j, items[n].content)}) = n - 1
              /\ items[n].vector = retrCall.documents[items[n].content].vector
              /\ items[n].similarity = Sim(items[n].content)
              /\ ~ScoreLess(items[n].similarity, retrCall.threshold)

\* C6 witness: more entries are kept than k, one of them exactly at the
\* threshold, and the two items returned have the same similarity and were not
\* the first entries of the input
C6_Witness ==
    /\ retrCall.state = "returned"
    /\ retrCall.k = 2
    /\ Cardinality(Kept) > 2
    /\ \E i \in Kept : ~ScoreLess(retrCall.threshold, Sim(i))
    /\ Len(retrCall.result.items) = 2
    /\ ~ScoreLess(retrCall.result.items[2].similarity,
                  retrCall.result.items[1].similarity)
    /\ retrCall.result.items[1].content = 2
    /\ retrCall.result.items[2].content = 3

\* entry d is bad: no object, a vector that is missing, no list or empty, or a
\* vector of another length than the query (the mismatch similarity raises,
\* which it does when neither vector is empty)
Bad(d) ==
    \/ ~d.isdict
    \/ d.vector.tag # "list"
    \/ d.vector.val = <<>>
    \/ Query.val # <<>> /\ Len(d.vector.val) # Len(Query.val)

RECURSIVE WithoutBad(_)
WithoutBad(documents) ==
    IF documents = <<>> THEN <<>>
    ELSE IF Bad(Head(documents)) THEN WithoutBad(Tail(documents))
    ELSE <<Head(documents)>> \o WithoutBad(Tail(documents))

\* C7: retrieve_top_k raises nothing because of a bad entry; no bad entry is
\* among the items returned, and the items are those the same call returns on
\* the entries without the bad ones.
C7_BadEntriesAreSkipped ==
    retrCall.state = "returned" =>
        /\ retrCall.result.raised = "none"
        /\ \A n \in 1..Len(retrCall.result.items) :
              ~Bad(retrCall.documents[retrCall.result.items[n].content])
        /\ retrCall.result = retrieve_top_k(Query, WithoutBad(retrCall.documents),
                                            retrCall.k, retrCall.threshold)

\* C7 witness: the entries hold one that is no object and one whose vector has
\* another length than the query, and the one good entry is returned
C7_Witness ==
    /\ retrCall.state = "returned"
    /\ retrCall.query_vector # <<>>
    /\ \E i \in 1..Len(retrCall.documents) : ~retrCall.documents[i].isdict
    /\ \E i \in 1..Len(retrCall.documents) :
          LET doc == retrCall.documents[i] IN
          /\ doc.isdict
          /\ doc.vector.tag = "list"
          /\ doc.vector.numeric
          /\ doc.vector.val # <<>>
          /\ Len(doc.vector.val) # Len(retrCall.query_vector)
    /\ Len(retrCall.result.items) = 1

\* C8: in a chat request whose search of the store returned no entry, the
\* model is never called: the request goes to no generation step and ends
\* without an error, with status 200, the reply "I don't know" and
\* retrievedChunks = 0, after appending its user message and then the fallback
\* as the assistant's message to the session.
C8_NoContextSkipsGenerator ==
    \A p \in Procs :
        (req[p].searched /\ req[p].retrieved = <<>>) =>
            /\ req[p].generated = 0
            /\ pc[p] \notin {"ch_generate", "ch_reply"}
            /\ req[p].outcome \in {"", "no_context"}
            /\ \E i \in 1..Len(hist[req[p].session_id]) :
                  hist[req[p].session_id][i] = Message("user", req[p].message)
            /\ pc[p] \in {"ch_fallback", "idle"} =>
                  /\ req[p].appended = <<Message("user", req[p].message),
                                         Message("assistant", <<"I don't know">>)>>
                  /\ \E i \in 1..Len(hist[req[p].session_id]) :
                        hist[req[p].session_id][i] =
                            Message("assistant", <<"I don't know">>)
            /\ pc[p] = "idle" =>
                  /\ req[p].outcome = "no_context"
                  /\ req[p].status = 200
                  /\ req[p].reply = <<"I don't know">>
                  /\ req[p].retrievedChunks = 0

\* C8 witness: a request whose search returned nothing has ended, and the log
\* of its session ends with the fallback
C8_Witness ==
    \E p \in Procs :
        /\ pc[p] = "idle"
        /\ req[p].searched
        /\ req[p].retrieved = <<>>
        /\ req[p].status = 200
        /\ Log(req[p].session_id) # <<>>
        /\ Log(req[p].session_id)[Len(Log(req[p].session_id))] =
               Message("assistant", <<"I don't know">>)

\* the call chunk_text(text, chunk_size, overlap) that has returned
ValidChunking ==
    /\ chunkCall.chunk_size > 0
    /\ chunkCall.overlap >= 0
    /\ chunkCall.overlap < chunkCall.chunk_size

\* the words of chunk i
ChunkWords(i) == Split(chunkCall.result.chunks[i])

\* the first chunk followed by every later chunk without its first overlap words
RECURSIVE Rebuilt(_)
Rebuilt(n) ==
    IF n = 0 THEN <<>>
    ELSE IF n = 1 THEN ChunkWords(1)
    ELSE Rebuilt(n - 1) \o SubSeq(ChunkWords(n), chunkCall.overlap + 1, Len(ChunkWords(n)))

\* C9: with chunk_size > 0 and 0 <= overlap < chunk_size the chunks cover the
\* words T of the text exactly: chunk i (from 0) is the window of up to chunk_size
\* words that starts at word i * (chunk_size - overlap); every word is in a
\* chunk; two consecutive chunks share exactly overlap words; no chunk is empty;
\* the last chunk ends at the last word; and the first chunk followed by the
\* later chunks without their first overlap words is T.
C9_ChunksCoverTextExactly ==
    (chunkCall.state = "returned" /\ ValidChunking) =>
        LET T == Split(chunkCall.text)
            step == chunkCall.chunk_size - chunkCall.overlap
            chunks == chunkCall.result.chunks
            Start(i) == (i - 1) * step
        IN  /\ chunkCall.result.err = "none"
            /\ (T = <<>>) <=> (chunks = <<>>)
            /\ \A i \in 1..Len(chunks) :
                  /\ chunks[i] # <<>>
                  /\ ChunkWords(i) # <<>>
                  /\ Start(i) < Len(T)
                  /\ Len(ChunkWords(i)) = Min(chunkCall.chunk_size, Len(T) - Start(i))
                  /\ \A j \in 1..Len(ChunkWords(i)) : ChunkWords(i)[j] = T[Start(i) + j]
            /\ \A j \in 1..Len(T) :
                  \E i \in 1..Len(chunks) :
                      Start(i) < j /\ j <= Start(i) + Len(ChunkWords(i))
            /\ \A i \in 1..(Len(chunks) - 1) :
                  /\ Start(i) + Len(ChunkWords(i)) - Start(i + 1) = chunkCall.overlap
                  /\ Len(ChunkWords(i + 1)) > chunkCall.overlap
                  /\ SubSeq(ChunkWords(i), Len(ChunkWords(i)) - chunkCall.overlap + 1,
                            Len(ChunkWords(i)))
                       = SubSeq(ChunkWords(i + 1), 1, chunkCall.overlap)
            /\ chunks # <<>> =>
                  Start(Len(chunks)) + Len(ChunkWords(Len(chunks))) = Len(T)
            /\ Rebuilt(Len(chunks)) = T

\* C9 witness: a text of four words cut with an overlap into three chunks
C9_Witness ==
    /\ chunkCall.state = "returned"
    /\ ValidChunking
    /\ chunkCall.overlap >= 1
    /\ Len(Split(chunkCall.text)) = 4
    /\ Len(chunkCall.result.chunks) = 3

\* the parameters the call offends with
Offending ==
    (IF chunkCall.chunk_size <= 0 THEN {"chunk_size"} ELSE {})
        \cup (IF chunkCall.overlap < 0 \/ chunkCall.overlap >= chunkCall.chunk_size
              THEN {"overlap"} ELSE {})

\* C10: chunk_text raises a ValueError that names an offending parameter
\* whenever chunk_size <= 0, overlap < 0 or overlap >= chunk_size, whatever the
\* text, the empty one included; with valid parameters and a text without
\* words (empty or blank) it returns the empty list and raises nothing.
C10_ParametersAreValidatedFirst ==
    chunkCall.state = "returned" =>
        /\ ~ValidChunking =>
              /\ chunkCall.result.err = "ValueError"
              /\ chunkCall.result.names \cap Offending # {}
              /\ chunkCall.result.chunks = <<>>
        /\ ValidChunking => chunkCall.result.err = "none"
        /\ (ValidChunking /\ \A i \in 1..Len(chunkCall.text) : chunkCall.text[i] = " ")
              => chunkCall.result.chunks = <<>>

\* C10 witness: the empty text with overlap = chunk_size was turned down
C10_Witness ==
    /\ chunkCall.state = "returned"
    /\ chunkCall.text = <<>>
    /\ chunkCall.chunk_size = 2
    /\ chunkCall.overlap = 2
    /\ chunkCall.result.err = "ValueError"

\* C11: a chat request calls _call_gemini_llm at most once, and so the model at
\* most once; what the call signals decides the response and nothing else
\* does: a non-empty text is the reply of a 200 and the assistant message
\* appended, a GeminiTimeoutError (an APIError of status 408 or 504, or another
\* exception whose message names a timeout) is a 504, and a GeminiAPIError (no
\* client, another failure, a completion empty after trimming) is a 502; a 504
\* comes from a timeout only, and a 502 after the call from a GeminiAPIError only.
C11_GeneratorOutcomesStayDistinct ==
    \A p \in Procs :
        LET r == req[p] IN
        /\ r.invoked <= 1
        /\ r.generated <= r.invoked
        /\ pc[p] \in {"ch_lock", "ch_unlock", "ch_history", "ch_embed", "ch_retrieve",
                      "ch_generate", "ch_fallback"} => r.invoked = 0
        /\ r.invoked = 1 =>
              /\ r.signalled \in {"none", "GeminiTimeoutError", "GeminiAPIError"}
              /\ (r.upstream.kind = "raise" /\ r.upstream.api
                      /\ r.upstream.status \in {408, 504})
                    => r.signalled = "GeminiTimeoutError"
              /\ (r.upstream.kind = "raise" /\ ~r.upstream.api /\ r.upstream.timeoutWord)
                    => r.signalled = "GeminiTimeoutError"
              /\ (r.upstream.kind = "raise" /\ ~r.upstream.api /\ ~r.upstream.timeoutWord)
                    => r.signalled = "GeminiAPIError"
              /\ r.upstream.kind = "no_client" => r.signalled = "GeminiAPIError"
              /\ (r.upstream.kind = "response"
                      /\ \A i \in 1..Len(r.upstream.text) : r.upstream.text[i] = " ")
                    => r.signalled = "GeminiAPIError"
              /\ r.signalled = "GeminiTimeoutError" =>
                    pc[p] = "idle" /\ r.status = 504 /\ r.outcome = "timeout"
                        /\ r.reply = <<>>
              /\ r.signalled = "GeminiAPIError" =>
                    pc[p] = "idle" /\ r.status = 502 /\ r.outcome = "upstream_error"
                        /\ r.reply = <<>>
              /\ r.signalled = "none" =>
                    /\ r.reply # <<>>
                    /\ r.reply = Strip(r.upstream.text)
                    /\ r.status \in {0, 200}
                    /\ pc[p] = "idle" =>
                          /\ r.status = 200
                          /\ r.outcome = "answered"
                          /\ r.appended = <<Message("user", r.message),
                                            Message("assistant", r.reply)>>
        /\ r.status = 504 => r.invoked = 1 /\ r.signalled = "GeminiTimeoutError"
        /\ (r.status = 502 /\ r.invoked = 1) => r.signalled = "GeminiAPIError"
        /\ (r.status = 200 /\ r.invoked = 1) => r.signalled = "none"

\* C11 witness: one request has ended with a 504 after a timeout and another
\* with a 502 after a completion that was empty
C11_Witness ==
    \E p, q \in Procs :
        /\ pc[p] = "idle"
        /\ pc[q] = "idle"
        /\ req[p].status = 504
        /\ req[p].generated = 1
        /\ req[q].status = 502
        /\ req[q].upstream.kind = "response"

\* C12: no step removes a session from the mapping; the length of a log that
\* no append is truncating (what a caller that takes the lock finds) is at most
\* 5 and never goes down: an append makes it one longer, and the truncation
\* that ends the append leaves min(length, 5), so that a log of 5 messages is a
\* log of 5 messages after every later step.
C12_SessionsOnlyMoveForward ==
    /\ [](\A s \in SessionIds :
            /\ ~Truncating(s) => Len(Log(s)) <= 5
            /\ Truncating(s) => (s \in Registered /\ Len(Log(s)) \in 1..6))
    /\ [][\A s \in SessionIds :
            /\ s \in Registered => s \in Registered'
            /\ (~Truncating(s) /\ ~Truncating(s)') =>
                  /\ Len(Log(s))' >= Len(Log(s))
                  /\ Len(Log(s)) = 5 => Len(Log(s))' = 5
            /\ (~Truncating(s) /\ Truncating(s)') => Len(Log(s))' = Len(Log(s)) + 1
            /\ (Truncating(s) /\ Truncating(s)') => Len(Log(s))' = Len(Log(s))
            /\ (Truncating(s) /\ ~Truncating(s)') =>
                  Len(Log(s))' = Min(Len(Log(s)), 5)]_vars

\* C12 witness: a chat request has ended on a session that was at the cap
\* before its reply was appended, and the session still holds 5 messages
C12_Witness ==
    \E p \in Procs :
        /\ pc[p] = "idle"
        /\ req[p].status = 200
        /\ Len(req[p].appended) = 2
        /\ Len(hist[req[p].session_id]) >= 6
        /\ Len(Log(req[p].session_id)) = 5
        /\ Registered = SessionIds

\* C13: a chat request with a non-blank session id and message has appended its
\* user message, and nothing else, when it comes to the embedder, the store and
\* the generator; the step that fails it (502 for an empty embedding, 500 for
\* an unavailable store, 504 for a generator timeout, 502 for a generator
\* error) changes no log, so the failed request has added that user message
\* and no assistant message; a request with a blank session id or message is
\* turned down with a 400 at once: the mapping is as before and no
\* collaborator was called.
C13_UserMessageSurvivesFailure ==
    /\ [](\A p \in Procs :
            LET r == req[p] IN
            /\ pc[p] \in {"ch_lock", "ch_unlock"} =>
                  r.appended = <<>> /\ r.collaborators = <<>>
            /\ pc[p] \in {"ch_history", "ch_embed", "ch_retrieve", "ch_generate"} =>
                  /\ r.appended = <<Message("user", r.message)>>
                  /\ \E i \in 1..Len(hist[r.session_id]) :
                        hist[r.session_id][i] = Message("user", r.message)
            /\ pc[p] \in {"ch_history", "ch_embed"} => r.collaborators = <<>>
            /\ pc[p] = "ch_retrieve" => r.collaborators = <<"embed">>
            /\ pc[p] = "ch_generate" => r.collaborators = <<"embed", "store">>
            /\ (pc[p] = "idle" /\ r.status \in {500, 502, 504}) =>
                  /\ r.session_id # <<>>
                  /\ r.message # <<>>
                  /\ r.appended = <<Message("user", r.message)>>
                  /\ \E i \in 1..Len(hist[r.session_id]) :
                        hist[r.session_id][i] = Message("user", r.message)
                  /\ r.outcome = "embed_failed" =>
                        r.status = 502 /\ r.collaborators = <<"embed">>
                  /\ r.outcome = "store_unavailable" =>
                        r.status = 500 /\ r.collaborators = <<"embed", "store">>
                  /\ r.outcome = "timeout" =>
                        r.status = 504 /\ r.collaborators = <<"embed", "store", "generate">>
                  /\ r.outcome = "upstream_error" =>
                        r.status = 502 /\ r.collaborators = <<"embed", "store", "generate">>
                  /\ r.outcome \in {"embed_failed", "store_unavailable", "timeout",
                                    "upstream_error"}
            /\ (pc[p] = "idle" /\ r.status = 400) =>
                  /\ r.session_id = <<>> \/ r.message = <<>>
                  /\ r.appended = <<>>
                  /\ r.collaborators = <<>>)
    /\ [][\A p \in Procs :
            /\ ((ChatEmbed(p) \/ ChatRetrieve(p) \/ ChatGenerate(p)) /\ pc'[p] = "idle") =>
                  /\ req'[p].status \in {500, 502, 504}
                  /\ Registered' = Registered
                  /\ \A t \in SessionIds : Log(t)' = Log(t)
                  /\ hist' = hist
            /\ \A sessionId \in RawSessionIds, message \in RawMessages :
                  (CallChat(p, sessionId, message)
                        /\ (Strip(sessionId) = <<>> \/ Strip(message) = <<>>)) =>
                      /\ pc'[p] = "idle"
                      /\ req'[p].status = 400
                      /\ Registered' = Registered
                      /\ \A t \in SessionIds : Log(t)' = Log(t)
                      /\ hist' = hist]_vars

\* C13 witness: a request has ended with a 500 for an unavailable store, and
\* the log of its session ends with its user message
C13_Witness ==
    \E p \in Procs :
        /\ pc[p] = "idle"
        /\ req[p].status = 500
        /\ req[p].outcome = "store_unavailable"
        /\ Log(req[p].session_id) # <<>>
        /\ Log(req[p].session_id)[Len(Log(req[p].session_id))] =
               Message("user", req[p].message)

\* the last element of a non-empty sequence
Last(seq) == seq[Len(seq)]

\* C14: in a chat request that is alone on its session, the history it got
\* back and hands to _build_prompt was copied after its user message was
\* appended: it is not empty and its last entry is the question; the history
\* section of the prompt it builds is not "No prior history." and ends with the
\* question's line; and when the request has ended with a 200 the log of the
\* session ends with its user message followed by its assistant reply.
C14_HistoryHoldsTheQuestion ==
    \A p \in Procs :
        LET r == req[p]
            question == Message("user", r.message)
        IN  r.alone =>
            /\ pc[p] = "ch_embed" =>
                  /\ rv[p] # NoRef
                  /\ heap[rv[p]] # <<>>
                  /\ Last(heap[rv[p]]) = question
            /\ pc[p] \in {"ch_retrieve", "ch_generate"} =>
                  /\ r.history # NoRef
                  /\ heap[r.history] # <<>>
                  /\ Last(heap[r.history]) = question
            /\ r.invoked >= 1 =>
                  /\ r.prompt.history # << <<"No prior history.">> >>
                  /\ r.prompt.history # <<>>
                  /\ Last(r.prompt.history) = <<"User", ": ">> \o r.message
                  /\ r.prompt.question = r.message
            /\ (pc[p] = "idle" /\ r.status = 200) =>
                  /\ r.reply # <<>>
                  /\ Len(Log(r.session_id)) >= 2
                  /\ Last(Log(r.session_id)) = Message("assistant", r.reply)
                  /\ Log(r.session_id)[Len(Log(r.session_id)) - 1] = question

\* C14 witness: a request that was alone on a session holding earlier messages
\* has been answered by the model
C14_Witness ==
    \E p \in Procs :
        /\ req[p].alone
        /\ pc[p] = "idle"
        /\ req[p].status = 200
        /\ req[p].outcome = "answered"
        /\ Len(req[p].prompt.history) = 5
        /\ Len(hist[req[p].session_id]) = 6

====
